---- MODULE Spec2Model ----
(***************************************************************************)
(* Recipe-Bliss: the on-demand thumbnail endpoint                           *)
(*   GET /thumbnails/:objectPath?w=&h=&q=                                   *)
(* of server/replit_integrations/object_storage/routes.ts, modelled as the  *)
(* life of one request: the synchronous parameter validation, the two       *)
(* awaited object-store calls, the size/type guard, and the stream pipeline *)
(* readStream.pipe(transformer).pipe(res) with its single "error" listener. *)
(*                                                                          *)
(* Strings the code parses are sequences of one-character strings, so that  *)
(* parseInt and startsWith are computed, not assumed.                       *)
(***************************************************************************)
EXTENDS Integers, Sequences, FiniteSets, TLC

(* ---------------------------------------------------------------------- *)
(* Bounds of the model                                                     *)
(* ---------------------------------------------------------------------- *)
\* chunks the stored object is delivered in by the store's read stream
SrcChunks == 4
\* chunks the encoded thumbnail is emitted in by the transformer
OutChunks == 2
\* chunks a stream buffer holds before write() answers false (highWaterMark)
HWM == 1
\* how far below MIN_SIZE and above MAX_SIZE the clamped integers range
ClampMargin == 12

(* ---------------------------------------------------------------------- *)
(* Program constants (routes.ts:103-109, 152)                              *)
(* ---------------------------------------------------------------------- *)
MIN_SIZE == 10
MAX_SIZE == 800
MIN_QUALITY == 10
MAX_QUALITY == 90
DEFAULT_WIDTH == 400
DEFAULT_HEIGHT == 300
\* the default the route's doc comment gives for q
DOC_QUALITY == 80
DEFAULT_QUALITY == 75
MAX_SOURCE_BYTES == 15 * 1024 * 1024

(* ---------------------------------------------------------------------- *)
(* JavaScript values                                                       *)
(* ---------------------------------------------------------------------- *)
\* a query parameter or metadata field that is not there (undefined)
Undefined == [present |-> FALSE, str |-> <<>>]
\* a string value, as its characters
Str(s) == [present |-> TRUE, str |-> s]

\* the value of a character as a digit; 99 when it is none
DigitVal(c) ==
  CASE c = "0" -> 0 [] c = "1" -> 1 [] c = "2" -> 2 [] c = "3" -> 3
    [] c = "4" -> 4 [] c = "5" -> 5 [] c = "6" -> 6 [] c = "7" -> 7
    [] c = "8" -> 8 [] c = "9" -> 9
    [] c \in {"a", "A"} -> 10 [] c \in {"b", "B"} -> 11
    [] c \in {"c", "C"} -> 12 [] c \in {"d", "D"} -> 13
    [] c \in {"e", "E"} -> 14 [] c \in {"f", "F"} -> 15
    [] OTHER -> 99

Max(a, b) == IF a >= b THEN a ELSE b
Min(a, b) == IF a <= b THEN a ELSE b

\* the string without its leading white space
RECURSIVE TrimStart(_)
TrimStart(s) ==
  IF s # <<>> /\ Head(s) = " " THEN TrimStart(Tail(s)) ELSE s

\* the value of the longest prefix of s made of digits of the radix,
\* continuing acc; seen tells whether a digit was read
RECURSIVE DigitPrefix(_, _, _, _)
DigitPrefix(s, radix, acc, seen) ==
  IF s # <<>> /\ DigitVal(Head(s)) < radix
    THEN DigitPrefix(Tail(s), radix, acc * radix + DigitVal(Head(s)), TRUE)
    ELSE [nan |-> ~seen, val |-> acc]

\* parseInt(v) without a radix: white space is skipped, one sign is read,
\* a 0x prefix selects base 16, then the longest run of digits is read;
\* NaN when there is no digit (also for undefined, which is converted to
\* the string "undefined")
ParseInt(v) ==
  IF ~v.present THEN [nan |-> TRUE, val |-> 0]
  ELSE LET t == TrimStart(v.str)
           neg == t # <<>> /\ Head(t) = "-"
           signed == t # <<>> /\ Head(t) \in {"-", "+"}
           u == IF signed THEN Tail(t) ELSE t
           hex == Len(u) >= 2 /\ u[1] = "0" /\ u[2] \in {"x", "X"}
           p == IF hex THEN DigitPrefix(SubSeq(u, 3, Len(u)), 16, 0, FALSE)
                       ELSE DigitPrefix(u, 10, 0, FALSE)
       IN  IF p.nan THEN p
           ELSE [nan |-> FALSE, val |-> IF neg THEN 0 - p.val ELSE p.val]

\* s.startsWith(prefix)
StartsWith(s, prefix) ==
  /\ Len(s) >= Len(prefix)
  /\ SubSeq(s, 1, Len(prefix)) = prefix

\* a clamp with the two bounds exchanged: Math.max(hi, Math.min(lo, x))
ClampExchanged(lo, hi, x) == Max(hi, Min(lo, x))

\* a clamp that forgets the lower bound: Math.min(hi, x)
ClampNoFloor(lo, hi, x) == Min(hi, x)

\* Math.max(lo, Math.min(hi, x))
Clamp(lo, hi, x) == Max(lo, Min(hi, x))

(* ---------------------------------------------------------------------- *)
(* Inputs: the query strings and the stored objects a request can meet     *)
(* ---------------------------------------------------------------------- *)
RawWidths ==
  { Undefined, Str(<<"a", "b", "c">>), Str(<<"0">>), Str(<<"-", "1", "0">>),
    Str(<<"5">>), Str(<<"4", "0", "0">>), Str(<<"5", "0", "0", "0">>) }
RawHeights ==
  { Undefined, Str(<<>>), Str(<<"0">>), Str(<<"1", "0">>),
    Str(<<"8", "0", "1">>) }
RawQualities ==
  { Undefined, Str(<<"q">>), Str(<<"1">>), Str(<<" ", "0", "x", "2", "0">>),
    Str(<<"1", "0", "0", "%">>) }

ImagePrefix == <<"i", "m", "a", "g", "e", "/">>
OctetStream ==
  <<"a", "p", "p", "l", "i", "c", "a", "t", "i", "o", "n", "/",
    "o", "c", "t", "e", "t", "-", "s", "t", "r", "e", "a", "m">>
ImagePng == ImagePrefix \o <<"p", "n", "g">>
ApplicationPdf ==
  <<"a", "p", "p", "l", "i", "c", "a", "t", "i", "o", "n", "/", "p", "d", "f">>
ImageGif == ImagePrefix \o <<"g", "i", "f">>
ContentTypes ==
  { Undefined, Str(ImagePng), Str(ImageGif), Str(ApplicationPdf) }

\* 15728640 = 15 MiB and 15728641, as the store reports them
SizeAtCeiling == Str(<<"1", "5", "7", "2", "8", "6", "4", "0">>)
SizeOverCeiling == Str(<<"1", "5", "7", "2", "8", "6", "4", "1">>)
Sizes == { Undefined, SizeAtCeiling, SizeOverCeiling }

\* the bytes an object really holds and the size its metadata reports:
\* the store reports the length, or the field is missing
StoredSizes ==
  { [bytes |-> 15 * 1024 * 1024, size |-> SizeAtCeiling],
    [bytes |-> 15 * 1024 * 1024 + 1, size |-> SizeOverCeiling],
    [bytes |-> 15 * 1024 * 1024, size |-> Undefined],
    [bytes |-> 15 * 1024 * 1024 + 1, size |-> Undefined] }

Objects ==
  { [exists |-> e, bytes |-> s.bytes, size |-> s.size, contentType |-> c] :
      e \in BOOLEAN, s \in StoredSizes, c \in ContentTypes }

(* ---------------------------------------------------------------------- *)
(* State                                                                   *)
(* ---------------------------------------------------------------------- *)
VARIABLES
  pc,        \* where the async handler is
  query,     \* req.query: w, h, q
  object,    \* the stored object behind req.params.objectPath
  width, height, quality,   \* the handler's locals
  metadata,  \* the handler's local metadata, once fetched
  caught,    \* the error the handler's catch block has caught
  transformer,  \* the handler's local transformer: its configuration
  calls,     \* object-store operations performed, in order
  res,       \* the HTTP response
  rs,        \* the store read stream
  rsRead,    \* chunks pulled from the store
  tState,    \* the transformer (sharp Duplex)
  tIn,       \* chunks in the transformer's writable buffer
  tHeld,     \* chunks the transformer has taken in and keeps for decoding
  tProd,     \* output chunks the transformer has produced
  tOut,      \* chunks in the transformer's readable buffer
  pipe1,     \* readStream.pipe(transformer) is in place
  pipe2,     \* transformer.pipe(res) is in place
  resBuf,    \* chunks written to res and not yet received by the client
  sent,      \* chunks the client has received
  dl,        \* the passthrough download of downloadObject
  failure,   \* the pipeline stage that has raised an "error" event
  proc,      \* the Node.js process
  peer,      \* the pipeline of another request served by the same process
  recipes,   \* MemStorage.recipes: the Map from id to Recipe
  nextId,    \* how many ids randomUUID has issued, plus one
  reply,     \* the response to the last request on /api/recipes
  deleted    \* the ids a DELETE has answered 204 for

vars == << pc, query, object, width, height, quality, metadata, caught,
           transformer,
           calls, res, rs, rsRead, tState, tIn, tHeld, tProd, tOut, pipe1,
           pipe2, resBuf, sent, dl, failure, proc, peer,
           recipes, nextId, reply, deleted >>

storeVars == << recipes, nextId, reply, deleted >>

handlerVars ==
  << pc, width, height, quality, metadata, caught, transformer, calls,
     peer, storeVars >>
pipeVars == << rs, rsRead, tState, tIn, tHeld, tProd, tOut, pipe1, pipe2 >>

NoHeader == <<>>
JsonType ==
  <<"a", "p", "p", "l", "i", "c", "a", "t", "i", "o", "n", "/",
    "j", "s", "o", "n">>
ImageJpeg == ImagePrefix \o <<"j", "p", "e", "g">>
LongCache == "public, max-age=31536000"

\* before getMetadata has answered
NoMetadata == [fetched |-> FALSE, size |-> Undefined, contentType |-> Undefined]
\* no stage has failed
NoFailure == [stage |-> "none", afterBytes |-> FALSE]

\* before sharp() is called
NoTransformer ==
  [ width |-> 0, height |-> 0, fit |-> "", position |-> "", format |-> "",
    quality |-> 0 ]

\* a fresh ServerResponse
NewResponse ==
  [ statusCode |-> 200, contentType |-> NoHeader, cacheControl |-> "",
    headersSent |-> FALSE, bodyKind |-> "none", error |-> "",
    state |-> "open", lateSend |-> FALSE ]

(* ---------------------------------------------------------------------- *)
(* The recipe store: values, recipes, and the Map of MemStorage            *)
(* ---------------------------------------------------------------------- *)
\* JSON values, tagged with their type: strings and arrays carry their
\* text in v, numbers their value in n
S(x) == [t |-> "string", v |-> <<x>>, n |-> 0]
N(x) == [t |-> "number", v |-> <<>>, n |-> x]
A(xs) == [t |-> "array", v |-> xs, n |-> 0]
Null == [t |-> "null", v |-> <<>>, n |-> 0]

\* an object without keys, and what Map.get answers for a missing key
NoRecipe == [k \in {} |-> Null]

\* { ...a, ...b }: the keys of both, b's value where b has the key
Spread(a, b) ==
  [k \in DOMAIN a \cup DOMAIN b |-> IF k \in DOMAIN b THEN b[k] ELSE a[k]]

\* Map.has, Map.get, Map.set and Map.delete on a Map held as a function
\* from its keys
MapHas(m, id) == id \in DOMAIN m
MapGet(m, id) == IF id \in DOMAIN m THEN m[id] ELSE NoRecipe
MapSet(m, id, val) ==
  [i \in DOMAIN m \cup {id} |-> IF i = id THEN val ELSE m[i]]
MapDelete(m, id) == [i \in DOMAIN m \ {id} |-> m[i]]

\* the sample recipes kept of those the constructor seeds
Seeded == 1
\* recipes a behaviour creates at most
MaxCreated == 2

\* a sample recipe of seedRecipes
SampleRecipe(i) ==
  [ name |-> S(IF i = 1 THEN "tomato egg" ELSE "curry rice"),
    imageUrl |-> Null,
    ingredients |-> A(<<"egg">>),
    steps |-> A(<<"stir">>),
    servings |-> N(2),
    cookTime |-> S("15 min") ]

\* this.recipes.set(id, { ...recipe, id }) for every sample
SeedRecipes ==
  [i \in 1..Seeded |-> Spread(SampleRecipe(i), [id |-> N(i)])]

NoReply ==
  [ op |-> "none", id |-> 0, body |-> NoRecipe, status |-> 0,
    recipe |-> NoRecipe ]

\* new MemStorage(): the seeded Map; no request answered yet
StoreConstructed ==
  /\ recipes = SeedRecipes
  /\ nextId = Seeded + 1
  /\ reply = NoReply
  /\ deleted = {}

Init ==
  /\ pc = "received"
  /\ query \in [w : RawWidths, h : RawHeights, q : RawQualities]
  /\ object \in Objects
  /\ width = DEFAULT_WIDTH /\ height = DEFAULT_HEIGHT
  /\ quality = DEFAULT_QUALITY
  /\ metadata = NoMetadata
  /\ caught = "none"
  /\ transformer = NoTransformer
  /\ calls = <<>>
  /\ res = NewResponse
  /\ rs = "none" /\ rsRead = 0
  /\ tState = "none" /\ tIn = 0 /\ tHeld = 0 /\ tProd = 0 /\ tOut = 0
  /\ pipe1 = FALSE /\ pipe2 = FALSE
  /\ resBuf = 0 /\ sent = 0
  /\ dl = [state |-> "none", read |-> 0]
  /\ failure = NoFailure
  /\ proc = "running"
  /\ peer = "none"
  /\ StoreConstructed

(* ---------------------------------------------------------------------- *)
(* The handler                                                             *)
(* ---------------------------------------------------------------------- *)
\* a parameter check on truthiness, if (raw), which takes the empty string
\* for an absent parameter
ParseParamFalsy(raw, default, lo, hi) ==
  IF ~raw.present \/ raw.str = <<>> THEN [ok |-> TRUE, val |-> default]
  ELSE LET parsed == ParseInt(raw)
       IN  IF parsed.nan \/ parsed.val <= 0
             THEN [ok |-> FALSE, val |-> default]
             ELSE [ok |-> TRUE, val |-> Clamp(lo, hi, parsed.val)]

\* a parameter check that lets zero through: parsed < 0
ParseParamAllowZero(raw, default, lo, hi) ==
  IF ~raw.present THEN [ok |-> TRUE, val |-> default]
  ELSE LET parsed == ParseInt(raw)
       IN  IF parsed.nan \/ parsed.val < 0
             THEN [ok |-> FALSE, val |-> default]
             ELSE [ok |-> TRUE, val |-> Clamp(lo, hi, parsed.val)]

\* one parameter: the default when absent, rejected when it does not parse
\* to a positive integer, clamped otherwise
ParseParam(raw, default, lo, hi) ==
  IF ~raw.present THEN [ok |-> TRUE, val |-> default]
  ELSE LET parsed == ParseInt(raw)
       IN  IF parsed.nan \/ parsed.val <= 0
             THEN [ok |-> FALSE, val |-> default]
             ELSE [ok |-> TRUE, val |-> Clamp(lo, hi, parsed.val)]

\* a validation that looks at the height before the width
ValidateParamsHeightFirst(q) ==
  LET pw == ParseParam(q.w, DEFAULT_WIDTH, MIN_SIZE, MAX_SIZE)
      ph == ParseParam(q.h, DEFAULT_HEIGHT, MIN_SIZE, MAX_SIZE)
      pq == ParseParam(q.q, DEFAULT_QUALITY, MIN_QUALITY, MAX_QUALITY)
  IN  IF ~ph.ok THEN [ok |-> FALSE, error |-> "Invalid height parameter",
                      width |-> DEFAULT_WIDTH, height |-> DEFAULT_HEIGHT,
                      quality |-> DEFAULT_QUALITY]
      ELSE IF ~pw.ok THEN [ok |-> FALSE, error |-> "Invalid width parameter",
                      width |-> DEFAULT_WIDTH, height |-> ph.val,
                      quality |-> DEFAULT_QUALITY]
      ELSE IF ~pq.ok THEN [ok |-> FALSE, error |-> "Invalid quality parameter",
                      width |-> pw.val, height |-> ph.val,
                      quality |-> DEFAULT_QUALITY]
      ELSE [ok |-> TRUE, error |-> "", width |-> pw.val, height |-> ph.val,
            quality |-> pq.val]

\* a validation that forgets the quality check before the lookup
ValidateParamsNoQuality(q) ==
  LET pw == ParseParam(q.w, DEFAULT_WIDTH, MIN_SIZE, MAX_SIZE)
      ph == ParseParam(q.h, DEFAULT_HEIGHT, MIN_SIZE, MAX_SIZE)
      pq == ParseParam(q.q, DEFAULT_QUALITY, MIN_QUALITY, MAX_QUALITY)
  IN  IF ~pw.ok THEN [ok |-> FALSE, error |-> "Invalid width parameter",
                      width |-> DEFAULT_WIDTH, height |-> DEFAULT_HEIGHT,
                      quality |-> DEFAULT_QUALITY]
      ELSE IF ~ph.ok THEN [ok |-> FALSE, error |-> "Invalid height parameter",
                      width |-> pw.val, height |-> DEFAULT_HEIGHT,
                      quality |-> DEFAULT_QUALITY]
      ELSE [ok |-> TRUE, error |-> "", width |-> pw.val, height |-> ph.val,
            quality |-> pq.val]

\* the three parameters in the order the handler checks them
ValidateParams(q) ==
  LET pw == ParseParam(q.w, DEFAULT_WIDTH, MIN_SIZE, MAX_SIZE)
      ph == ParseParam(q.h, DEFAULT_HEIGHT, MIN_SIZE, MAX_SIZE)
      pq == ParseParam(q.q, DEFAULT_QUALITY, MIN_QUALITY, MAX_QUALITY)
  IN  IF ~pw.ok THEN [ok |-> FALSE, error |-> "Invalid width parameter",
                      width |-> DEFAULT_WIDTH, height |-> DEFAULT_HEIGHT,
                      quality |-> DEFAULT_QUALITY]
      ELSE IF ~ph.ok THEN [ok |-> FALSE, error |-> "Invalid height parameter",
                      width |-> pw.val, height |-> DEFAULT_HEIGHT,
                      quality |-> DEFAULT_QUALITY]
      ELSE IF ~pq.ok THEN [ok |-> FALSE, error |-> "Invalid quality parameter",
                      width |-> pw.val, height |-> ph.val,
                      quality |-> DEFAULT_QUALITY]
      ELSE [ok |-> TRUE, error |-> "", width |-> pw.val, height |-> ph.val,
            quality |-> pq.val]

\* res.status(code).json({ error: msg }): the whole response when the
\* headers are not sent yet; on a response the client has left nothing
\* goes out; once the headers are sent it is an attempt at a second
\* response (setting the header throws) and what is on the wire stays
Json(r, code, msg) ==
  IF r.headersSent THEN [r EXCEPT !.lateSend = TRUE]
  ELSE IF r.state = "open"
    THEN [r EXCEPT !.statusCode = code, !.error = msg, !.bodyKind = "json",
                   !.contentType = JsonType, !.headersSent = TRUE,
                   !.state = "ended"]
    ELSE [r EXCEPT !.statusCode = code]

\* a default that takes an object without a content type for an image:
\* metadata.contentType || "image/jpeg"
ContentTypeOfImageDefault(o) ==
  IF o.contentType.present /\ o.contentType.str # <<>>
    THEN o.contentType.str ELSE ImageJpeg

\* metadata.contentType || "application/octet-stream"
ContentTypeOf(o) ==
  IF o.contentType.present /\ o.contentType.str # <<>>
    THEN o.contentType.str ELSE OctetStream

\* parseInt(metadata.size as string) || 0
FileSizeOf(o) ==
  LET p == ParseInt(o.size) IN IF p.nan THEN 0 ELSE p.val

\* const [metadata] = await objectFile.getMetadata()
MetadataOf(o) ==
  [fetched |-> TRUE, size |-> o.size, contentType |-> o.contentType]

\* a size guard that is off by one byte
TooLargeOffByOne(o) == FileSizeOf(o) > MAX_SOURCE_BYTES + 1

\* fileSize > 15 * 1024 * 1024
TooLarge(o) == FileSizeOf(o) > MAX_SOURCE_BYTES
\* a type guard that knows PNG only
IsImagePngOnly(o) == ContentTypeOf(o) = ImagePng

\* a type guard that only tells the default type from the others
IsImageUnlessDefault(o) == ContentTypeOf(o) # OctetStream

\* contentType.startsWith("image/")
IsImage(o) == StartsWith(ContentTypeOf(o), ImagePrefix)

\* a catch block that takes every error for a missing object
CatchAll404(r, error) == Json(r, 404, "Object not found")

\* a catch block without the ObjectNotFoundError branch
CatchAll500(r, error) == Json(r, 500, "Failed to serve thumbnail")

\* the catch block of the handler
Catch(r, error) ==
  IF error = "ObjectNotFoundError"
    THEN Json(r, 404, "Object not found")
    ELSE Json(r, 500, "Failed to serve thumbnail")

\* the synchronous start of the handler: validation, then the object lookup
\* is issued
Validate ==
  /\ proc = "running" /\ pc = "received"
  /\ LET v == ValidateParams(query)
     IN  IF ~v.ok
           THEN /\ res' = Json(res, 400, v.error)
                /\ pc' = "done"
                /\ UNCHANGED << width, height, quality, calls >>
           ELSE /\ width' = v.width /\ height' = v.height
                /\ quality' = v.quality
                /\ calls' = Append(calls, "getObjectEntityFile")
                /\ pc' = "awaitFile"
                /\ UNCHANGED res
  /\ UNCHANGED << query, object, metadata, caught, transformer, pipeVars,
                  resBuf, sent,
                  dl, failure, proc,
                  peer, storeVars >>

\* what getObjectEntityFile can answer: the file, ObjectNotFoundError when
\* there is no such object, or another error of the store
LookupOutcomes(o) ==
  (IF o.exists THEN {"ok"} ELSE {"notfound"}) \cup {"error"}

\* await getObjectEntityFile(objectPath) settles
FileResolved ==
  /\ proc = "running" /\ pc = "awaitFile"
  /\ \E outcome \in LookupOutcomes(object) :
       CASE outcome = "ok" ->
              /\ calls' = Append(calls, "getMetadata")
              /\ pc' = "awaitMetadata"
              /\ UNCHANGED << res, caught >>
         [] outcome = "notfound" ->
              /\ caught' = "ObjectNotFoundError"
              /\ res' = Catch(res, "ObjectNotFoundError")
              /\ pc' = "done"
              /\ UNCHANGED calls
         [] outcome = "error" ->
              /\ caught' = "Error"
              /\ res' = Catch(res, "Error")
              /\ pc' = "done"
              /\ UNCHANGED calls
  /\ UNCHANGED << query, object, width, height, quality, metadata,
                  transformer, pipeVars,
                  resBuf, sent, dl, failure, proc,
                  peer, storeVars >>

\* a listener that answers 500 without looking at res.headersSent
OnResErrorUnchecked(r) == Json(r, 500, "Failed to process thumbnail")

\* the listener of .on("error") on the stream the last pipe returns, res
OnResError(r) ==
  IF ~r.headersSent THEN Json(r, 500, "Failed to process thumbnail") ELSE r

\* a transformer given the height where the width belongs
SharpExchanged(w, h, q) ==
  [ width |-> h, height |-> w, fit |-> "cover", position |-> "center",
    format |-> "jpeg", quality |-> q ]

\* sharp().resize(width, height, { fit: "cover", position: "center" })
\*        .jpeg({ quality })
Sharp(w, h, q) ==
  [ width |-> w, height |-> h, fit |-> "cover", position |-> "center",
    format |-> "jpeg", quality |-> q ]

\* headers that leave out the cache policy
SetHeadersNoCache(r) == [r EXCEPT !.contentType = ImageJpeg]

\* res.set({ "Content-Type": ..., "Cache-Control": ... })
SetHeaders(r) ==
  [r EXCEPT !.contentType = ImageJpeg, !.cacheControl = LongCache]

\* a handler that applies the type guard before the size guard
MetadataResolvedTypeFirst ==
  /\ proc = "running" /\ pc = "awaitMetadata"
  /\ \E outcome \in {"ok", "error"} :
       IF outcome = "error"
         THEN /\ caught' = "Error"
              /\ res' = Catch(res, "Error")
              /\ pc' = "done"
              /\ UNCHANGED << metadata, transformer, calls, pipeVars, dl >>
       ELSE IF ~IsImage(object)
         THEN /\ metadata' = MetadataOf(object)
              /\ calls' = Append(calls, "downloadObject")
              /\ dl' = [state |-> "started", read |-> 0]
              /\ pc' = "awaitDownload"
              /\ UNCHANGED << caught, transformer, res, pipeVars >>
       ELSE IF TooLarge(object)
         THEN /\ metadata' = MetadataOf(object)
              /\ res' = Json(res, 400,
                             "File too large for thumbnail generation")
              /\ pc' = "done"
              /\ UNCHANGED << caught, transformer, calls, pipeVars, dl >>
       ELSE /\ metadata' = MetadataOf(object)
            /\ UNCHANGED caught
            /\ transformer' = Sharp(width, height, quality)
            /\ res' = SetHeaders(res)
            /\ calls' = Append(calls, "createReadStream")
            /\ rs' = "flowing"
            /\ tState' = "writable"
            /\ pipe1' = TRUE /\ pipe2' = TRUE
            /\ pc' = "returned"
            /\ UNCHANGED << rsRead, tIn, tHeld, tProd, tOut, dl >>
  /\ UNCHANGED << query, object, width, height, quality, resBuf, sent,
                  failure, proc,
                  peer, storeVars >>


\* await objectFile.getMetadata() settles; then the size guard, the type
\* guard, the headers, and the pipeline is set up
MetadataResolved ==
  /\ proc = "running" /\ pc = "awaitMetadata"
  /\ \E outcome \in {"ok", "error"} :
       IF outcome = "error"
         THEN /\ caught' = "Error"
              /\ res' = Catch(res, "Error")
              /\ pc' = "done"
              /\ UNCHANGED << metadata, transformer, calls, pipeVars, dl >>
       ELSE IF TooLarge(object)
         THEN /\ metadata' = MetadataOf(object)
              /\ res' = Json(res, 400,
                             "File too large for thumbnail generation")
              /\ pc' = "done"
              /\ UNCHANGED << caught, transformer, calls, pipeVars, dl >>
       ELSE IF ~IsImage(object)
         THEN /\ metadata' = MetadataOf(object)
              /\ calls' = Append(calls, "downloadObject")
              /\ dl' = [state |-> "started", read |-> 0]
              /\ pc' = "awaitDownload"
              /\ UNCHANGED << caught, transformer, res, pipeVars >>
       ELSE /\ metadata' = MetadataOf(object)
            /\ UNCHANGED caught
            /\ transformer' = Sharp(width, height, quality)
            /\ res' = SetHeaders(res)
            /\ calls' = Append(calls, "createReadStream")
            /\ rs' = "flowing"
            /\ tState' = "writable"
            /\ pipe1' = TRUE /\ pipe2' = TRUE
            /\ pc' = "returned"
            /\ UNCHANGED << rsRead, tIn, tHeld, tProd, tOut, dl >>
  /\ UNCHANGED << query, object, width, height, quality, resBuf, sent,
                  failure, proc,
                  peer, storeVars >>

(* ---------------------------------------------------------------------- *)
(* The pipeline  readStream.pipe(transformer).pipe(res)                    *)
(* ---------------------------------------------------------------------- *)
\* an "error" event that is swallowed: the response is left as it is
CrashIgnored(r) == r

\* an "error" event on a stream nobody listens to is thrown and ends the
\* process; every open connection goes with it
Crash(r) ==
  IF r.state \in {"open", "ending"} THEN [r EXCEPT !.state = "closed"] ELSE r

\* the read stream emits a chunk; pipe writes it to the transformer and
\* pauses the read stream when write() answers false
StoreRead ==
  /\ proc = "running" /\ rs = "flowing" /\ pipe1
  /\ rsRead < SrcChunks
  /\ rsRead' = rsRead + 1
  /\ tIn' = tIn + 1
  /\ rs' = IF tIn + 1 >= HWM THEN "paused" ELSE "flowing"
  /\ UNCHANGED << handlerVars, query, object, res, tState, tHeld, tProd,
                  tOut, pipe1, pipe2, resBuf, sent, dl, failure, proc >>

\* the read stream ends; pipe calls transformer.end()
StoreEnd ==
  /\ proc = "running" /\ rs = "flowing" /\ pipe1
  /\ rsRead = SrcChunks
  /\ rs' = "ended"
  /\ tState' = "finishing"
  /\ pipe1' = FALSE
  /\ UNCHANGED << handlerVars, query, object, res, rsRead, tIn, tHeld,
                  tProd, tOut, pipe2, resBuf, sent, dl, failure, proc >>

\* the read stream fails; it has no "error" listener
ReadStreamError ==
  /\ proc = "running" /\ rs \in {"flowing", "paused"}
  /\ failure' = [stage |-> "read", afterBytes |-> res.headersSent]
  /\ proc' = "crashed"
  /\ res' = Crash(res)
  /\ UNCHANGED << handlerVars, query, object, pipeVars, resBuf, sent, dl >>

\* a transformer whose "drain" never resumes the read stream
TransformConsumeNoDrain ==
  /\ proc = "running" /\ tState \in {"writable", "finishing"}
  /\ tIn > 0
  /\ tIn' = tIn - 1
  /\ tHeld' = tHeld + 1
  /\ UNCHANGED << handlerVars, query, object, res, rs, rsRead, tState, tProd,
                  tOut, pipe1, pipe2, resBuf, sent, dl, failure, proc >>

\* the transformer (a Duplex whose write side is independent of its read
\* side) takes a chunk off its writable buffer, acknowledges it and keeps
\* it for decoding; "drain" resumes the read stream
TransformConsume ==
  /\ proc = "running" /\ tState \in {"writable", "finishing"}
  /\ tIn > 0
  /\ tIn' = tIn - 1
  /\ tHeld' = tHeld + 1
  /\ rs' = IF rs = "paused" /\ pipe1 /\ tIn - 1 = 0 THEN "flowing" ELSE rs
  /\ UNCHANGED << handlerVars, query, object, res, rsRead, tState, tProd,
                  tOut, pipe1, pipe2, resBuf, sent, dl, failure, proc >>

\* the transformer pushes a chunk of the encoded image; as for any Duplex,
\* when it does so is its own matter: as early as after its first input
\* chunk, as late as after its last
TransformProduce ==
  /\ proc = "running" /\ tState \in {"writable", "finishing"}
  /\ tHeld > 0
  /\ tProd < OutChunks
  /\ tOut < HWM
  /\ tProd' = tProd + 1
  /\ tOut' = tOut + 1
  /\ UNCHANGED << handlerVars, query, object, res, rs, rsRead, tState, tIn,
                  tHeld, pipe1, pipe2, resBuf, sent, dl, failure, proc >>

\* the transformer has taken all its input and pushed all its output
TransformEnd ==
  /\ proc = "running" /\ tState = "finishing"
  /\ tIn = 0 /\ tProd = OutChunks
  /\ tState' = "ended"
  /\ tHeld' = 0
  /\ UNCHANGED << handlerVars, query, object, res, rs, rsRead, tIn, tProd,
                  tOut, pipe1, pipe2, resBuf, sent, dl, failure, proc >>

\* decoding or encoding fails: pipe's own listener on the transformer
\* unpipes and re-emits, and no other listener is there
TransformError ==
  /\ proc = "running" /\ tState \in {"writable", "finishing"}
  /\ failure' = [stage |-> "transform", afterBytes |-> res.headersSent]
  /\ proc' = "crashed"
  /\ res' = Crash(res)
  /\ UNCHANGED << handlerVars, query, object, pipeVars, resBuf, sent, dl >>

\* the transformer emits a chunk; pipe writes it to res. Writing to a
\* response the client left before the pipe was set up makes res emit
\* "error"
ResWrite ==
  /\ proc = "running" /\ pipe2 /\ tOut > 0
  /\ \/ /\ res.state = "open" /\ resBuf < HWM
        /\ tOut' = tOut - 1
        /\ resBuf' = resBuf + 1
        /\ res' = [res EXCEPT !.headersSent = TRUE, !.bodyKind = "jpeg"]
        /\ UNCHANGED << pipe2, failure >>
     \/ /\ res.state = "closed"
        /\ pipe2' = FALSE
        /\ failure' = [stage |-> "response", afterBytes |-> res.headersSent]
        /\ res' = OnResError(res)
        /\ UNCHANGED << tOut, resBuf >>
  /\ UNCHANGED << handlerVars, query, object, rs, rsRead, tState, tIn, tHeld,
                  tProd, pipe1, sent, dl, proc >>

\* the transformer's readable side ends; pipe calls res.end()
ResEnd ==
  /\ proc = "running" /\ pipe2 /\ tState = "ended" /\ tOut = 0
  /\ res.state = "open"
  /\ res' = [res EXCEPT !.headersSent = TRUE, !.bodyKind = "jpeg",
                        !.state = "ending"]
  /\ pipe2' = FALSE
  /\ UNCHANGED << handlerVars, query, object, rs, rsRead, tState, tIn, tHeld,
                  tProd, tOut, pipe1, resBuf, sent, dl, failure, proc >>

\* writing to the socket fails: res emits "error" and is destroyed
ResError ==
  /\ proc = "running" /\ pipe2 /\ res.state = "open"
  /\ failure' = [stage |-> "response", afterBytes |-> res.headersSent]
  /\ res' = OnResError([res EXCEPT !.state = "closed"])
  /\ pipe2' = FALSE
  /\ resBuf' = 0
  /\ UNCHANGED << handlerVars, query, object, rs, rsRead, tState, tIn, tHeld,
                  tProd, tOut, pipe1, sent, dl, proc >>

(* ---------------------------------------------------------------------- *)
(* The client                                                              *)
(* ---------------------------------------------------------------------- *)
\* the client takes a chunk off the socket
ClientReceive ==
  /\ proc = "running" /\ res.state \in {"open", "ending"}
  /\ resBuf > 0
  /\ resBuf' = resBuf - 1
  /\ sent' = sent + 1
  /\ UNCHANGED << handlerVars, query, object, res, pipeVars, dl, failure,
                  proc >>

\* the last byte is out: "finish"
ResFinish ==
  /\ proc = "running" /\ res.state = "ending" /\ resBuf = 0
  /\ res' = [res EXCEPT !.state = "ended"]
  /\ UNCHANGED << handlerVars, query, object, pipeVars, resBuf, sent, dl,
                  failure, proc >>

\* the client goes away; res emits "close" and pipe unpipes the transformer
ClientDisconnect ==
  /\ proc = "running" /\ res.state \in {"open", "ending"}
  /\ res' = [res EXCEPT !.state = "closed"]
  /\ pipe2' = FALSE
  /\ resBuf' = 0
  /\ UNCHANGED << handlerVars, query, object, rs, rsRead, tState, tIn, tHeld,
                  tProd, tOut, pipe1, sent, dl, failure, proc >>

(* ---------------------------------------------------------------------- *)
(* Passthrough: objectStorageService.downloadObject(objectFile, res)       *)
(* ---------------------------------------------------------------------- *)
\* the original bytes go to res under the stored content type
DownloadWrite ==
  /\ proc = "running" /\ pc = "awaitDownload"
  /\ dl.state \in {"started", "streaming"}
  /\ dl.read < SrcChunks
  /\ res.state = "open" /\ resBuf < HWM
  /\ dl' = [state |-> "streaming", read |-> dl.read + 1]
  /\ resBuf' = resBuf + 1
  /\ res' = [res EXCEPT !.headersSent = TRUE, !.bodyKind = "original",
                        !.contentType = ContentTypeOf(object)]
  /\ UNCHANGED << handlerVars, query, object, pipeVars, sent, failure, proc >>

\* all original bytes are written; the awaited call resolves
DownloadEnd ==
  /\ proc = "running" /\ pc = "awaitDownload"
  /\ dl.state = "streaming" /\ dl.read = SrcChunks
  /\ res.state = "open"
  /\ dl' = [dl EXCEPT !.state = "done"]
  /\ res' = [res EXCEPT !.state = "ending"]
  /\ pc' = "done"
  /\ UNCHANGED << query, object, width, height, quality, metadata, caught,
                  transformer,
                  calls, pipeVars, resBuf, sent, failure, proc,
                  peer, storeVars >>

\* the download is given up because the client has left
DownloadAbandon ==
  /\ proc = "running" /\ pc = "awaitDownload"
  /\ res.state = "closed"
  /\ dl' = [dl EXCEPT !.state = "abandoned"]
  /\ pc' = "done"
  /\ UNCHANGED << query, object, width, height, quality, metadata, caught,
                  transformer,
                  calls, res, pipeVars, resBuf, sent, failure, proc,
                  peer, storeVars >>

\* the download fails after bytes are out: the connection is given up and
\* the awaited call settles without an error for the handler
DownloadAbort ==
  /\ proc = "running" /\ pc = "awaitDownload"
  /\ dl.state = "streaming"
  /\ res.state = "open"
  /\ dl' = [dl EXCEPT !.state = "aborted"]
  /\ res' = [res EXCEPT !.state = "closed"]
  /\ resBuf' = 0
  /\ pc' = "done"
  /\ UNCHANGED << query, object, width, height, quality, metadata, caught,
                  transformer,
                  calls, pipeVars, sent, failure, proc,
                  peer, storeVars >>

\* the awaited call rejects before a byte is written; the handler's catch
DownloadFail ==
  /\ proc = "running" /\ pc = "awaitDownload"
  /\ dl.state = "started"
  /\ dl' = [dl EXCEPT !.state = "failed"]
  /\ caught' = "Error"
  /\ res' = Catch(res, "Error")
  /\ pc' = "done"
  /\ UNCHANGED << query, object, width, height, quality, metadata,
                  transformer, calls,
                  pipeVars, resBuf, sent, failure, proc,
                  peer, storeVars >>

Next ==
  \/ Validate
  \/ FileResolved
  \/ MetadataResolved
  \/ StoreRead
  \/ StoreEnd
  \/ ReadStreamError
  \/ TransformConsume
  \/ TransformProduce
  \/ TransformEnd
  \/ TransformError
  \/ ResWrite
  \/ ResEnd
  \/ ResError
  \/ ClientReceive
  \/ ResFinish
  \/ ClientDisconnect
  \/ DownloadWrite
  \/ DownloadEnd
  \/ DownloadAbandon
  \/ DownloadAbort
  \/ DownloadFail

Spec == Init /\ [][Next]_vars

(* ---------------------------------------------------------------------- *)
(* Two requests in one process: the same handler runs for another request  *)
(* whose pipeline is followed as far as it can touch this one              *)
(* ---------------------------------------------------------------------- *)
\* the other request passes its guards and sets up its own read stream,
\* transformer and pipes
PeerPipe ==
  /\ proc = "running" /\ peer = "none"
  /\ peer' = "streaming"
  /\ UNCHANGED << pc, width, height, quality, metadata, caught, transformer,
                  calls, query, object, res, pipeVars, resBuf, sent, dl,
                  failure, proc, storeVars >>

\* the other request's thumbnail is delivered
PeerFinish ==
  /\ proc = "running" /\ peer = "streaming"
  /\ peer' = "finished"
  /\ UNCHANGED << pc, width, height, quality, metadata, caught, transformer,
                  calls, query, object, res, pipeVars, resBuf, sent, dl,
                  failure, proc, storeVars >>

\* the other request's read stream or transformer fails; neither has an
\* "error" listener
PeerStreamError ==
  /\ proc = "running" /\ peer = "streaming"
  /\ peer' = "failed"
  /\ proc' = "crashed"
  /\ res' = Crash(res)
  /\ UNCHANGED << pc, width, height, quality, metadata, caught, transformer,
                  calls, query, object, pipeVars, resBuf, sent, dl,
                  failure, storeVars >>

PairNext == Next \/ PeerPipe \/ PeerFinish \/ PeerStreamError

PairSpec == Init /\ [][PairNext]_vars

\* the scheduling of the event loop, the store, the transformer and the
\* client: every step that stays possible is eventually taken; failures
\* and the client's departure are never forced
Fairness ==
  /\ WF_vars(Validate) /\ WF_vars(FileResolved) /\ WF_vars(MetadataResolved)
  /\ WF_vars(StoreRead) /\ WF_vars(StoreEnd)
  /\ WF_vars(TransformConsume) /\ WF_vars(TransformProduce)
  /\ WF_vars(TransformEnd)
  /\ WF_vars(ResWrite) /\ WF_vars(ResEnd) /\ WF_vars(ResFinish)
  /\ WF_vars(ClientReceive)
  /\ WF_vars(DownloadWrite) /\ WF_vars(DownloadEnd)
  /\ WF_vars(DownloadAbandon)

LiveSpec == Init /\ [][Next]_vars /\ Fairness

(* ---------------------------------------------------------------------- *)
(* The clamp on its own: Math.max(MIN, Math.min(MAX, parsed)) applied to   *)
(* an integer, and applied again to its result                             *)
(* ---------------------------------------------------------------------- *)
ClampInputs == (MIN_SIZE - ClampMargin)..(MAX_SIZE + ClampMargin)

\* height keeps the integer; width and quality are what is clamped
InitClamp ==
  /\ pc = "clamp"
  /\ height \in ClampInputs
  /\ width = height /\ quality = height
  /\ query = [w |-> Undefined, h |-> Undefined, q |-> Undefined]
  /\ object = [exists |-> FALSE, bytes |-> 0, size |-> Undefined,
               contentType |-> Undefined]
  /\ metadata = NoMetadata
  /\ caught = "none"
  /\ transformer = NoTransformer
  /\ calls = <<>>
  /\ res = NewResponse
  /\ rs = "none" /\ rsRead = 0
  /\ tState = "none" /\ tIn = 0 /\ tHeld = 0 /\ tProd = 0 /\ tOut = 0
  /\ pipe1 = FALSE /\ pipe2 = FALSE
  /\ resBuf = 0 /\ sent = 0
  /\ dl = [state |-> "none", read |-> 0]
  /\ failure = NoFailure
  /\ proc = "running"
  /\ peer = "none"
  /\ StoreConstructed

\* width = Math.max(MIN_SIZE, Math.min(MAX_SIZE, parsed));
\* quality = Math.max(MIN_QUALITY, Math.min(MAX_QUALITY, parsed))
ClampOnce ==
  /\ pc = "clamp"
  /\ width' = Clamp(MIN_SIZE, MAX_SIZE, width)
  /\ quality' = Clamp(MIN_QUALITY, MAX_QUALITY, quality)
  /\ pc' = "clamped"
  /\ UNCHANGED << query, object, height, metadata, caught, transformer,
                  calls, res,
                  pipeVars, resBuf, sent, dl, failure, proc,
                  peer, storeVars >>

\* the same two expressions on their own results
ClampAgain ==
  /\ pc = "clamped"
  /\ width' = Clamp(MIN_SIZE, MAX_SIZE, width)
  /\ quality' = Clamp(MIN_QUALITY, MAX_QUALITY, quality)
  /\ pc' = "clamped2"
  /\ UNCHANGED << query, object, height, metadata, caught, transformer,
                  calls, res,
                  pipeVars, resBuf, sent, dl, failure, proc,
                  peer, storeVars >>

ClampNext == ClampOnce \/ ClampAgain

ClampSpec == InitClamp /\ [][ClampNext]_vars

(* ---------------------------------------------------------------------- *)
(* The recipe API: /api/recipes over MemStorage                            *)
(* ---------------------------------------------------------------------- *)
\* the columns of the recipes table without id
ShapeKeys ==
  { "name", "imageUrls", "ingredients", "steps", "servings", "cookTime",
    "category", "sourceUrl" }
\* the columns an insert has to give: notNull and without default
RequiredKeys == { "name", "ingredients", "steps" }
\* .optional().default([]) and .optional().default(2)
InsertDefaults == [imageUrls |-> A(<<>>), servings |-> N(2)]
Urls == { "https://example.org/r" }

\* z.array(z.string().min(1)).min(1)
NonEmptyList(val) ==
  /\ val.t = "array" /\ Len(val.v) >= 1
  /\ \A i \in 1..Len(val.v) : val.v[i] # ""

\* the zod type of one column of insertRecipeSchema
FieldOk(k, val) ==
  CASE k = "name" -> val.t = "string" /\ val.v[1] # ""
    [] k = "imageUrls" -> val.t = "array" /\ Len(val.v) <= 5
    [] k \in {"ingredients", "steps"} -> NonEmptyList(val)
    [] k = "servings" -> val.t = "number" /\ val.n >= 1 /\ val.n <= 20
    [] k \in {"cookTime", "category"} -> val.t \in {"string", "null"}
    [] k = "sourceUrl" ->
         val.t = "null" \/ (val.t = "string" /\ val.v[1] \in Urls)

\* a zod object drops the keys its shape does not have
Strip(body) == [k \in DOMAIN body \cap ShapeKeys |-> body[k]]

\* insertRecipeSchema.safeParse(req.body)
SafeParseInsert(body) ==
  LET ok == /\ RequiredKeys \subseteq DOMAIN body
            /\ \A k \in DOMAIN body \cap ShapeKeys : FieldOk(k, body[k])
  IN  [ success |-> ok,
        data |-> IF ok THEN Spread(InsertDefaults, Strip(body))
                       ELSE NoRecipe ]

\* updateRecipeSchema.safeParse(req.body), the schema being
\* insertRecipeSchema.partial(): every key optional, no default filled in
SafeParseUpdate(body) ==
  LET ok == \A k \in DOMAIN body \cap ShapeKeys : FieldOk(k, body[k])
  IN  [success |-> ok, data |-> IF ok THEN Strip(body) ELSE NoRecipe]

\* the request bodies
SoupBody ==
  [name |-> S("soup"), ingredients |-> A(<<"water">>),
   steps |-> A(<<"boil">>)]
Bodies ==
  { SoupBody,
    Spread(SoupBody, [servings |-> N(4), id |-> N(1)]),
    Spread(SoupBody, [name |-> S("")]),
    [servings |-> N(0)],
    [name |-> S("stew")],
    [servings |-> N(4), id |-> N(Seeded)],
    NoRecipe }

\* the ids a request can name
RequestIds == 1..(Seeded + MaxCreated)

\* an id taken from the size of the Map
NewIdFromSize(m, n) == Cardinality(DOMAIN m) + 1

\* randomUUID(): an id that was never issued before
NewId(m, n) == n

\* MemStorage.getRecipe
GetRecipe(m, id) == MapGet(m, id)

\* MemStorage.createRecipe
CreateRecipe(m, insertRecipe, id) ==
  LET recipe == Spread(insertRecipe, [id |-> N(id)])
  IN  [store |-> MapSet(m, id, recipe), result |-> recipe]

\* an update that writes the updates over the recipe without keeping it
UpdateRecipeReplace(m, id, updates) ==
  IF ~MapHas(m, id) THEN [store |-> m, result |-> NoRecipe]
  ELSE LET updated == Spread([id |-> N(id)], updates)
       IN  [store |-> MapSet(m, id, updated), result |-> updated]

\* an update that stores the recipe also when there was none
UpdateRecipeUpsert(m, id, updates) ==
  LET updated == Spread(MapGet(m, id), updates)
  IN  [store |-> MapSet(m, id, updated), result |-> updated]

\* MemStorage.updateRecipe
UpdateRecipe(m, id, updates) ==
  IF ~MapHas(m, id) THEN [store |-> m, result |-> NoRecipe]
  ELSE LET updated == Spread(MapGet(m, id), updates)
       IN  [store |-> MapSet(m, id, updated), result |-> updated]

\* MemStorage.deleteRecipe
DeleteRecipe(m, id) == [store |-> MapDelete(m, id), result |-> MapHas(m, id)]

\* the request (method, req.params.id, req.body) with what
\* res.status(code).json(recipe) answered it
Reply(op, id, body, code, recipe) ==
  [op |-> op, id |-> id, body |-> body, status |-> code, recipe |-> recipe]

\* GET /api/recipes
ListRecipes ==
  /\ pc = "api"
  /\ reply' = Reply("LIST", 0, NoRecipe, 200, NoRecipe)
  /\ UNCHANGED << recipes, nextId, deleted >>
  /\ UNCHANGED << pc, width, height, quality, metadata, caught, transformer,
                  calls, peer, query, object, res, pipeVars, resBuf, sent,
                  dl, failure, proc >>

\* GET /api/recipes/:id
GetRecipeById ==
  /\ pc = "api"
  /\ \E id \in RequestIds :
       LET recipe == GetRecipe(recipes, id)
       IN  reply' = IF recipe = NoRecipe
                      THEN Reply("GET", id, NoRecipe, 404, NoRecipe)
                      ELSE Reply("GET", id, NoRecipe, 200, recipe)
  /\ UNCHANGED << recipes, nextId, deleted >>
  /\ UNCHANGED << pc, width, height, quality, metadata, caught, transformer,
                  calls, peer, query, object, res, pipeVars, resBuf, sent,
                  dl, failure, proc >>

\* POST /api/recipes
PostRecipe ==
  /\ pc = "api"
  /\ \E body \in Bodies :
       LET result == SafeParseInsert(body)
       IN  IF ~result.success
             THEN /\ reply' = Reply("POST", 0, body, 400, NoRecipe)
                  /\ UNCHANGED << recipes, nextId >>
             ELSE /\ nextId <= Seeded + MaxCreated
                  /\ LET id == NewId(recipes, nextId)
                         made == CreateRecipe(recipes, result.data, id)
                     IN  /\ recipes' = made.store
                         /\ nextId' = nextId + 1
                         /\ reply' = Reply("POST", id, body, 201, made.result)
  /\ UNCHANGED deleted
  /\ UNCHANGED << pc, width, height, quality, metadata, caught, transformer,
                  calls, peer, query, object, res, pipeVars, resBuf, sent,
                  dl, failure, proc >>

\* a PATCH that looks the id up before it validates the body
PatchRecipeLookupFirst ==
  /\ pc = "api"
  /\ \E id \in RequestIds, body \in Bodies :
       LET result == SafeParseUpdate(body)
       IN  IF ~MapHas(recipes, id)
             THEN /\ reply' = Reply("PATCH", id, body, 404, NoRecipe)
                  /\ UNCHANGED recipes
           ELSE IF ~result.success
             THEN /\ reply' = Reply("PATCH", id, body, 400, NoRecipe)
                  /\ UNCHANGED recipes
           ELSE LET upd == UpdateRecipe(recipes, id, result.data)
                IN  /\ recipes' = upd.store
                    /\ reply' = Reply("PATCH", id, body, 200, upd.result)
  /\ UNCHANGED << nextId, deleted >>
  /\ UNCHANGED << pc, width, height, quality, metadata, caught, transformer,
                  calls, peer, query, object, res, pipeVars, resBuf, sent,
                  dl, failure, proc >>

\* PATCH /api/recipes/:id
PatchRecipe ==
  /\ pc = "api"
  /\ \E id \in RequestIds, body \in Bodies :
       LET result == SafeParseUpdate(body)
       IN  IF ~result.success
             THEN /\ reply' = Reply("PATCH", id, body, 400, NoRecipe)
                  /\ UNCHANGED recipes
             ELSE LET upd == UpdateRecipe(recipes, id, result.data)
                  IN  /\ recipes' = upd.store
                      /\ reply' =
                           IF upd.result = NoRecipe
                             THEN Reply("PATCH", id, body, 404, NoRecipe)
                             ELSE Reply("PATCH", id, body, 200, upd.result)
  /\ UNCHANGED << nextId, deleted >>
  /\ UNCHANGED << pc, width, height, quality, metadata, caught, transformer,
                  calls, peer, query, object, res, pipeVars, resBuf, sent,
                  dl, failure, proc >>

\* DELETE /api/recipes/:id
DeleteRecipeById ==
  /\ pc = "api"
  /\ \E id \in RequestIds :
       LET del == DeleteRecipe(recipes, id)
       IN  /\ recipes' = del.store
           /\ IF ~del.result
                THEN /\ reply' = Reply("DELETE", id, NoRecipe, 404, NoRecipe)
                     /\ UNCHANGED deleted
                ELSE /\ reply' = Reply("DELETE", id, NoRecipe, 204, NoRecipe)
                     /\ deleted' = deleted \cup {id}
  /\ UNCHANGED nextId
  /\ UNCHANGED << pc, width, height, quality, metadata, caught, transformer,
                  calls, peer, query, object, res, pipeVars, resBuf, sent,
                  dl, failure, proc >>

\* the server with its store constructed and no thumbnail request
RecipeInit ==
  /\ pc = "api"
  /\ width = DEFAULT_WIDTH /\ height = DEFAULT_HEIGHT
  /\ quality = DEFAULT_QUALITY
  /\ query = [w |-> Undefined, h |-> Undefined, q |-> Undefined]
  /\ object = [exists |-> FALSE, bytes |-> 0, size |-> Undefined,
               contentType |-> Undefined]
  /\ metadata = NoMetadata
  /\ caught = "none"
  /\ transformer = NoTransformer
  /\ calls = <<>>
  /\ res = NewResponse
  /\ rs = "none" /\ rsRead = 0
  /\ tState = "none" /\ tIn = 0 /\ tHeld = 0 /\ tProd = 0 /\ tOut = 0
  /\ pipe1 = FALSE /\ pipe2 = FALSE
  /\ resBuf = 0 /\ sent = 0
  /\ dl = [state |-> "none", read |-> 0]
  /\ failure = NoFailure
  /\ proc = "running"
  /\ peer = "none"
  /\ StoreConstructed

RecipeNext ==
  \/ ListRecipes
  \/ GetRecipeById
  \/ PostRecipe
  \/ PatchRecipe
  \/ DeleteRecipeById

RecipeSpec == RecipeInit /\ [][RecipeNext]_vars

TypeOK ==
  /\ pc \in {"received", "awaitFile", "awaitMetadata", "awaitDownload",
             "returned", "done", "clamp", "clamped", "clamped2", "api"}
  /\ DOMAIN recipes \subseteq 1..(nextId - 1)
  /\ deleted \subseteq 1..(nextId - 1)
  /\ \A i \in DOMAIN recipes : recipes[i].id = N(i)
  /\ rs \in {"none", "flowing", "paused", "ended"}
  /\ tState \in {"none", "writable", "finishing", "ended"}
  /\ res.state \in {"open", "ending", "ended", "closed"}
  /\ proc \in {"running", "crashed"}
  /\ peer \in {"none", "streaming", "finished", "failed"}
  /\ rsRead \in 0..SrcChunks /\ tIn \in 0..HWM /\ tHeld \in 0..SrcChunks
  /\ tProd \in 0..OutChunks /\ tOut \in 0..HWM /\ resBuf \in 0..HWM

(* ---------------------------------------------------------------------- *)
(* Properties                                                              *)
(* ---------------------------------------------------------------------- *)
\* the read stream is opened and the transformer created
TransformStarted == rs # "none" /\ tState # "none"

\* C1: whenever the transform has been started, width and height are
\* integers in [10, 800] and quality is an integer in [10, 90], whatever
\* w, h and q were (absent, in range, out of range).
C1_ParamsInRange ==
  TransformStarted =>
    /\ width \in 10..800
    /\ height \in 10..800
    /\ quality \in 10..90

\* a transform started with w above the range, h absent and q below it
C1_Witness ==
  /\ TransformStarted
  /\ query.w.present /\ ParseInt(query.w).val > 800 /\ width = 800
  /\ ~query.h.present /\ height = 300
  /\ query.q.present /\ ParseInt(query.q).val < 10 /\ quality = 10

\* the fetched metadata reports more than 15 MiB
ReportsOversize ==
  /\ metadata.fetched
  /\ ~ParseInt(metadata.size).nan
  /\ ParseInt(metadata.size).val > 15 * 1024 * 1024

\* C2: when the metadata reports a size above 15*1024*1024 bytes the
\* response is 400 and the store has seen only the object lookup and the
\* metadata fetch: no createReadStream, no downloadObject.
C2_SizeCeiling ==
  ReportsOversize =>
    /\ res.statusCode = 400
    /\ res.bodyKind \in {"none", "json"}
    /\ calls = <<"getObjectEntityFile", "getMetadata">>
    /\ rs = "none" /\ tState = "none" /\ dl.state = "none"

\* an object of 15 MiB + 1 byte has been refused
C2_Witness ==
  /\ metadata.fetched /\ metadata.size = SizeOverCeiling
  /\ res.state = "ended" /\ res.statusCode = 400
  /\ res.error = "File too large for thumbnail generation"

\* the raw value is there and is not a positive integer
InvalidRaw(v) == v.present /\ (ParseInt(v).nan \/ ParseInt(v).val <= 0)

\* C3: when w, h or q is present and does not parse to an integer greater
\* than 0, the request is answered with 400 and no object-store operation
\* is performed.
C3_InvalidParameter ==
  (/\ pc # "received"
   /\ InvalidRaw(query.w) \/ InvalidRaw(query.h) \/ InvalidRaw(query.q)) =>
    /\ pc = "done"
    /\ res.statusCode = 400
    /\ calls = <<>>
    /\ rs = "none" /\ dl.state = "none"

\* w=0 with valid h and q has been answered with 400
C3_Witness ==
  /\ query.w = Str(<<"0">>)
  /\ ~InvalidRaw(query.h) /\ ~InvalidRaw(query.q)
  /\ res.state = "ended" /\ res.statusCode = 400 /\ res.bodyKind = "json"
  /\ calls = <<>>

\* C4: an error raised by any stage of the pipeline before the first
\* response byte is surfaced as HTTP 500 with a JSON error body: the client
\* receives it when the read stream or the transformer failed, and the
\* listener has answered 500 when the response stream itself failed.
C4_StageErrorsSurfaced ==
  /\ (failure.stage \in {"read", "transform"} /\ ~failure.afterBytes) =>
       /\ res.state = "ended"
       /\ res.statusCode = 500 /\ res.bodyKind = "json"
  /\ (failure.stage = "response" /\ ~failure.afterBytes) =>
       res.statusCode = 500

\* C5: when the read stream or the transformer fails after response bytes
\* are in flight, the connection is terminated: the response is closed and
\* is never finished as a completed body.
C5_AbortAfterBytes ==
  (failure.stage \in {"read", "transform"} /\ failure.afterBytes) =>
    /\ res.state = "closed"
    /\ res.bodyKind # "json"

\* the transformer failed after the client had received part of the image
C5_Witness ==
  /\ failure.stage = "transform" /\ failure.afterBytes
  /\ sent > 0 /\ tProd < OutChunks
  /\ res.state = "closed"

\* the terminal states of a request
Completed == res.state = "ended" /\ res.statusCode = 200
NotFound == res.state = "ended" /\ res.statusCode = 404
\* refused with an error response (400, or 500 for a store failure)
Rejected == res.state = "ended" /\ res.statusCode \in {400, 500}
\* the connection is gone before the response was finished
Aborted == res.state = "closed"
Terminal == Completed \/ Aborted \/ Rejected \/ NotFound

\* C6: under fair scheduling of the store, the transformer and the client,
\* every request eventually reaches Completed, Aborted, Rejected or
\* NotFound, also when the read stream or the transformer fails.
C6_Terminates == <>Terminal

\* the read stream failed in the middle of the object and the request is
\* Aborted
C6_Witness ==
  /\ failure.stage = "read" /\ rsRead > 0 /\ rsRead < SrcChunks
  /\ Aborted

\* the client has left a request whose pipeline is set up, and the closed
\* response has been detected (the transformer is unpiped from res)
Abandoned ==
  /\ proc = "running" /\ failure.stage = "none"
  /\ TransformStarted
  /\ res.state = "closed" /\ ~pipe2

\* C7: once the client's disconnection is detected, no further chunk is
\* pulled from the store read stream and the transformer does no further
\* work.
C7_NoWorkAfterAbandon ==
  [][Abandoned =>
       (rsRead' = rsRead /\ tHeld' = tHeld /\ tProd' = tProd)]_vars

\* the most the stage buffers hold: the transformer's writable buffer, the
\* chunk it is working on, and its readable buffer
StageBound == 2 * HWM + 1

\* C8: on the transform path the chunks read from the store and not yet
\* written to the response never exceed the bound set by the stage
\* buffers, however slowly the client consumes.
C8_BackpressureBound ==
  TransformStarted => tIn + tHeld + tOut <= StageBound

\* the fetched content type does not start with "image/"
NotAnImage ==
  /\ metadata.fetched
  /\ ~(metadata.contentType.present
       /\ StartsWith(metadata.contentType.str, ImagePrefix))

\* C9: an object within the size ceiling whose content type does not start
\* with "image/" is served through downloadObject, its bytes and content
\* type unmodified; no transformer is created and no transform read stream
\* is opened.
C9_Passthrough ==
  (NotAnImage /\ ~ReportsOversize) =>
    /\ calls = <<"getObjectEntityFile", "getMetadata", "downloadObject">>
    /\ rs = "none" /\ tState = "none" /\ rsRead = 0 /\ tProd = 0
    /\ dl.state # "none"
    /\ res.bodyKind \in {"none", "original", "json"}
    /\ res.bodyKind = "json" => dl.state = "failed"
    /\ (res.bodyKind = "original" /\ metadata.contentType.present) =>
         res.contentType = metadata.contentType.str

\* a PDF has been served whole through downloadObject
C9_Witness ==
  /\ metadata.fetched /\ metadata.contentType = Str(ApplicationPdf)
  /\ dl.state = "done" /\ dl.read = SrcChunks /\ sent = SrcChunks
  /\ res.state = "ended" /\ res.statusCode = 200
  /\ res.contentType = ApplicationPdf

\* w, h and q are all absent or positive integers
ValidQuery ==
  ~InvalidRaw(query.w) /\ ~InvalidRaw(query.h) /\ ~InvalidRaw(query.q)

\* C10: a request with valid parameters for an object that does not exist
\* is answered with 404 and body {"error":"Object not found"}, and no body
\* stream is ever started for it.
C10_NotFound ==
  (ValidQuery /\ ~object.exists) =>
    /\ rs = "none" /\ tState = "none" /\ dl.state = "none"
    /\ res.bodyKind \in {"none", "json"}
    /\ caught = "ObjectNotFoundError" =>
         /\ res.statusCode = 404
         /\ res.state = "ended" =>
              res.bodyKind = "json" /\ res.error = "Object not found"
    /\ (pc = "done" /\ caught # "Error") => caught = "ObjectNotFoundError"

\* the 404 has been sent for a missing object
C10_Witness ==
  /\ ValidQuery /\ ~object.exists
  /\ res.state = "ended" /\ res.statusCode = 404
  /\ res.error = "Object not found"
  /\ calls = <<"getObjectEntityFile">>

BodyWrite == TransformStarted /\ resBuf' > resBuf

\* C12: on the transform path Content-Type and Cache-Control are set
\* before the first body byte: no chunk is written to the response in a
\* state where these headers are not set.
C12_HeadersBeforeBody ==
  [][BodyWrite =>
       (res.contentType = ImageJpeg
        /\ res.cacheControl = "public, max-age=31536000")]_vars

\* the first chunk is in the response, under both headers
C12_Witness ==
  /\ TransformStarted /\ resBuf = 1 /\ sent = 0 /\ res.headersSent
  /\ res.contentType = ImageJpeg /\ res.cacheControl = LongCache

\* a byte stream of the object is open: the transform read stream or the
\* passthrough download
StreamOpened ==
  \/ rs # "none" \/ dl.state # "none"
  \/ (Len(calls) >= 3
      /\ calls[3] \in {"createReadStream", "downloadObject"})

\* C13: the steps of a request come in this order: the three parameters
\* are validated, then the object is looked up and its metadata fetched,
\* then the size and type guard is decided, and only then is a byte stream
\* opened.
C13_StepOrder ==
  /\ Len(calls) <= 3
  /\ calls # <<>> => (ValidQuery /\ calls[1] = "getObjectEntityFile")
  /\ Len(calls) >= 2 => calls[2] = "getMetadata"
  /\ metadata.fetched => Len(calls) >= 2
  /\ StreamOpened =>
       /\ Len(calls) = 3
       /\ metadata.fetched /\ ~ReportsOversize
       /\ rs # "none" <=> calls[3] = "createReadStream"
       /\ dl.state # "none" <=> calls[3] = "downloadObject"
       /\ rs # "none" => ~NotAnImage
       /\ dl.state # "none" => NotAnImage

\* a read stream opened after three given parameters were validated and
\* the metadata passed the guard
C13_Witness ==
  /\ query.w.present /\ query.h.present /\ query.q.present
  /\ metadata.fetched /\ metadata.size = SizeAtCeiling
  /\ rs = "flowing" /\ rsRead = 0
  /\ calls = <<"getObjectEntityFile", "getMetadata", "createReadStream">>

\* validation has passed and the handler has gone on to the lookup
Validated == calls # <<>>

Bounded(lo, hi, x) == IF x < lo THEN lo ELSE IF x > hi THEN hi ELSE x

\* the raw value is a positive integer
PositiveRaw(v) == v.present /\ ~ParseInt(v).nan /\ ParseInt(v).val > 0

\* C15: a positive integer w, h or q is not rejected for that parameter and
\* the value used is max(min, min(max, value)), with [10, 800] for width
\* and height and [10, 90] for quality; w=5 gives 10 and w=5000 gives 800.
C15_Clamped ==
  /\ Validated =>
       /\ PositiveRaw(query.w) =>
            width = Bounded(10, 800, ParseInt(query.w).val)
       /\ PositiveRaw(query.h) =>
            height = Bounded(10, 800, ParseInt(query.h).val)
       /\ PositiveRaw(query.q) =>
            quality = Bounded(10, 90, ParseInt(query.q).val)
       /\ query.w = Str(<<"5">>) => width = 10
       /\ query.w = Str(<<"5", "0", "0", "0">>) => width = 800
  /\ (pc # "received" /\ PositiveRaw(query.w)) =>
       res.error # "Invalid width parameter"
  /\ (pc # "received" /\ PositiveRaw(query.h)) =>
       res.error # "Invalid height parameter"
  /\ (pc # "received" /\ PositiveRaw(query.q)) =>
       res.error # "Invalid quality parameter"
  /\ (pc # "received" /\ PositiveRaw(query.w) /\ PositiveRaw(query.h)
      /\ PositiveRaw(query.q)) => Validated

\* w=5000 is used as 800 next to an h of 801 used as 800 and a q of 1 used
\* as 10
C15_Witness ==
  /\ Validated
  /\ query.w = Str(<<"5", "0", "0", "0">>) /\ width = 800
  /\ query.h = Str(<<"8", "0", "1">>) /\ height = 800
  /\ query.q = Str(<<"1">>) /\ quality = 10

\* C16: clamping is idempotent and the identity on in-range values, for
\* both ranges: clamp(clamp(x)) = clamp(x), and clamp(x) = x whenever
\* min <= x <= max.
C16_ClampIdempotent ==
  [][/\ (pc = "clamp" /\ pc' = "clamped") =>
          /\ (10 <= width /\ width <= 800) => width' = width
          /\ (10 <= quality /\ quality <= 90) => quality' = quality
     /\ (pc = "clamped" /\ pc' = "clamped2") =>
          (width' = width /\ quality' = quality)]_vars

\* 95 clamped twice: kept as a size, cut to 90 as a quality
C16_Witness ==
  /\ pc = "clamped2"
  /\ height = 95 /\ width = 95 /\ quality = 90

\* the value a raw parameter stands for: its default, or its integer
\* bounded to the range
Expected(raw, default, lo, hi) ==
  IF raw.present THEN Bounded(lo, hi, ParseInt(raw).val) ELSE default

\* C17: the transformer of every transformed response is configured with
\* width and height equal to the clamped w and h, fit cover, anchor centre,
\* JPEG output at the clamped quality, and the response Content-Type is
\* image/jpeg whatever the content type of the original image.
C17_TransformSpec ==
  TransformStarted =>
    /\ transformer =
         [ width |-> Expected(query.w, 400, 10, 800),
           height |-> Expected(query.h, 300, 10, 800),
           fit |-> "cover", position |-> "center", format |-> "jpeg",
           quality |-> Expected(query.q, 75, 10, 90) ]
    /\ res.bodyKind = "jpeg" => res.contentType = ImageJpeg
    /\ res.bodyKind \in {"none", "jpeg"}

\* a GIF is going out as JPEG, 800 by 10 at quality 32
C17_Witness ==
  /\ TransformStarted
  /\ metadata.contentType = Str(ImageGif)
  /\ res.bodyKind = "jpeg" /\ res.contentType = ImageJpeg /\ sent > 0
  /\ transformer.width = 800 /\ transformer.height = 10
  /\ transformer.quality = 32

\* the path a request takes as its inputs alone determine it: the raw
\* query, and the stored object with its metadata
ExpectedPath(q, o) ==
  IF InvalidRaw(q.w) \/ InvalidRaw(q.h) \/ InvalidRaw(q.q) THEN "reject"
  ELSE IF ~o.exists THEN "notfound"
  ELSE IF ~ParseInt(o.size).nan /\ ParseInt(o.size).val > 15 * 1024 * 1024
    THEN "toolarge"
  ELSE IF o.contentType.present /\ StartsWith(o.contentType.str, ImagePrefix)
    THEN "transform"
  ELSE "passthrough"

\* the first parameter, in the order w, h, q, that is not acceptable
ExpectedError(q) ==
  IF InvalidRaw(q.w) THEN "Invalid width parameter"
  ELSE IF InvalidRaw(q.h) THEN "Invalid height parameter"
  ELSE "Invalid quality parameter"

\* the path the request has taken so far; "failed" when the store itself
\* failed, "undecided" before the guard outcome
DecidedPath ==
  IF caught = "Error" THEN "failed"
  ELSE IF caught = "ObjectNotFoundError" THEN "notfound"
  ELSE IF pc = "done" /\ calls = <<>> THEN "reject"
  ELSE IF TransformStarted THEN "transform"
  ELSE IF dl.state # "none" THEN "passthrough"
  ELSE IF pc = "done" /\ metadata.fetched THEN "toolarge"
  ELSE "undecided"

\* C18: the path of a request (reject, passthrough or transform), its
\* status, headers and transform settings are a function of the raw
\* (w, h, q) and of the stored object and its metadata, and of nothing
\* else; so two requests with the same inputs agree on all of them.
C18_Deterministic ==
  DecidedPath \notin {"undecided", "failed"} =>
    /\ DecidedPath = ExpectedPath(query, object)
    /\ DecidedPath = "reject" =>
         /\ res.statusCode = 400
         /\ res.state = "ended" => res.error = ExpectedError(query)
    /\ DecidedPath = "notfound" => res.statusCode = 404
    /\ DecidedPath = "toolarge" => res.statusCode = 400
    /\ DecidedPath = "transform" =>
         /\ transformer =
              [ width |-> Expected(query.w, 400, 10, 800),
                height |-> Expected(query.h, 300, 10, 800),
                fit |-> "cover", position |-> "center", format |-> "jpeg",
                quality |-> Expected(query.q, 75, 10, 90) ]
         /\ res.cacheControl = "public, max-age=31536000"
         /\ res.headersSent =>
              (res.statusCode = 200 /\ res.contentType = ImageJpeg)
    /\ DecidedPath = "passthrough" =>
         /\ transformer = NoTransformer
         /\ res.headersSent =>
              (res.statusCode = 200
               /\ res.contentType = ContentTypeOf(object))

\* a GIF with all three parameters given has been transformed to the end
C18_Witness ==
  /\ DecidedPath = "transform"
  /\ object.contentType = Str(ImageGif)
  /\ query.w.present /\ query.h.present /\ query.q.present
  /\ Completed /\ sent = OutChunks

\* this request was cut short by the process ending
CutShort == proc = "crashed" /\ res.state = "closed"

\* C19: requests share no mutable state: however the steps of concurrent
\* requests interleave, a request's status, headers, transform settings and
\* store calls are those it has when running alone, and another request
\* never keeps it from progressing; so a request is only ever cut short by
\* a failure of its own streams.
C19_Independent ==
  /\ CutShort => failure.stage \in {"read", "transform"}
  /\ proc = "crashed" => peer # "failed"

\* C20: a failure of the object store other than not-found, raised by the
\* object lookup or the metadata fetch (or by the download before it wrote
\* anything), is answered with HTTP 500 and a JSON body { error: string };
\* the status is never 404, 400 or 200.
C20_StoreFailure ==
  caught = "Error" =>
    /\ res.statusCode = 500
    /\ res.bodyKind \in {"none", "json"}
    /\ res.state # "closed" =>
         /\ res.state = "ended"
         /\ res.bodyKind = "json" /\ res.contentType = JsonType
         /\ res.error = "Failed to serve thumbnail"
    /\ sent = 0 /\ resBuf = 0

\* getMetadata threw for an existing object and the client got the 500
C20_Witness ==
  /\ caught = "Error"
  /\ object.exists
  /\ calls = <<"getObjectEntityFile", "getMetadata">>
  /\ ~metadata.fetched
  /\ res.state = "ended" /\ res.statusCode = 500 /\ res.bodyKind = "json"

\* the 400 with this message has gone out, and nothing of the request was
\* used: no store call, no transformer, no pipeline
RejectedWith(msg) ==
  /\ pc = "done"
  /\ res.statusCode = 400
  /\ res.state = "ended" => (res.bodyKind = "json" /\ res.error = msg)
  /\ res.bodyKind \in {"none", "json"}
  /\ calls = <<>> /\ transformer = NoTransformer
  /\ rs = "none" /\ tState = "none" /\ dl.state = "none"

\* C21: the parameters are checked in the order width, height, quality and
\* the 400 names the first failing field: an invalid w gives the width
\* error whatever h and q are; a valid or absent w with an invalid h gives
\* the height error; otherwise an invalid q gives the quality error; and
\* nothing of a rejected request is clamped into a transform or used.
C21_FirstFailingField ==
  pc # "received" =>
    /\ InvalidRaw(query.w) => RejectedWith("Invalid width parameter")
    /\ (~InvalidRaw(query.w) /\ InvalidRaw(query.h)) =>
         RejectedWith("Invalid height parameter")
    /\ (~InvalidRaw(query.w) /\ ~InvalidRaw(query.h)
        /\ InvalidRaw(query.q)) =>
         RejectedWith("Invalid quality parameter")

\* w, h and q are all invalid and the client was told about the width
C21_Witness ==
  /\ query.w = Str(<<"-", "1", "0">>)
  /\ query.h = Str(<<>>)
  /\ query.q = Str(<<"q">>)
  /\ res.state = "ended" /\ res.statusCode = 400
  /\ res.error = "Invalid width parameter"

\* C22: the size guard comes before the type guard: an object that reports
\* more than 15 MiB and is not an image is refused with 400; downloadObject
\* is not called for it and none of its bytes is served.
C22_SizeBeforeType ==
  (ReportsOversize /\ NotAnImage) =>
    /\ pc = "done"
    /\ res.statusCode = 400
    /\ res.bodyKind # "original"
    /\ res.state = "ended" =>
         res.error = "File too large for thumbnail generation"
    /\ dl = [state |-> "none", read |-> 0]
    /\ \A i \in 1..Len(calls) : calls[i] # "downloadObject"
    /\ sent = 0 /\ resBuf = 0

\* a PDF of 15 MiB + 1 byte has been refused
C22_Witness ==
  /\ metadata.fetched
  /\ metadata.size = SizeOverCeiling
  /\ metadata.contentType = Str(ApplicationPdf)
  /\ res.state = "ended" /\ res.statusCode = 400 /\ res.bodyKind = "json"

\* the parameter is in the query string and holds no number: empty, or
\* not starting with digits
NotNumeric(v) == v.present /\ ParseInt(v).nan

\* the value the handler works with is the default only for an absent
\* parameter; a present one contributed its own number
FromAbsenceOnly(v, field, default, lo, hi) ==
  IF v.present
    THEN ~ParseInt(v).nan /\ field = Max(lo, Min(hi, ParseInt(v).val))
    ELSE field = default

\* C23: a parameter that is present with an empty or non-numeric value is
\* answered with 400 and never replaced by its default; the defaults are
\* used for absent parameters only.
C23_PresentNotDefaulted ==
  /\ (/\ pc # "received"
      /\ NotNumeric(query.w) \/ NotNumeric(query.h) \/ NotNumeric(query.q))
       => /\ pc = "done" /\ res.statusCode = 400
          /\ calls = <<>> /\ transformer = NoTransformer
  /\ Validated =>
       /\ FromAbsenceOnly(query.w, width, 400, 10, 800)
       /\ FromAbsenceOnly(query.h, height, 300, 10, 800)
       /\ FromAbsenceOnly(query.q, quality, 75, 10, 90)

\* h is present and empty, w and q are fine, and the answer was 400
C23_Witness ==
  /\ query.h = Str(<<>>)
  /\ ~InvalidRaw(query.w) /\ ~InvalidRaw(query.q)
  /\ res.state = "ended" /\ res.statusCode = 400
  /\ res.error = "Invalid height parameter"
  /\ height = 300 /\ transformer = NoTransformer

\* C24: whenever the transform has been started, the stored object holds
\* at most 15*1024*1024 bytes, also when its metadata has no size field or
\* one that is not a number (read as 0 by the handler).
C24_SourceWithinCeiling ==
  TransformStarted => object.bytes <= 15 * 1024 * 1024

\* the fetched metadata has no content type
NoContentType == metadata.fetched /\ ~metadata.contentType.present

\* C25 as stated: an object whose metadata has no content type always
\* takes the passthrough branch and never the transform branch.
C25_AlwaysPassthrough ==
  NoContentType =>
    /\ dl.state # "none"
    /\ ~TransformStarted

\* C25, amended: an object whose metadata has no content type is treated
\* as application/octet-stream; it never takes the transform branch, and
\* it takes the passthrough branch whenever the size guard lets it pass;
\* when its metadata reports more than 15 MiB it is refused with 400.
C25_NoTypePassthrough ==
  NoContentType =>
    /\ ~TransformStarted /\ transformer = NoTransformer
    /\ res.cacheControl = ""
    /\ IF ReportsOversize
         THEN res.statusCode = 400 /\ dl.state = "none"
         ELSE /\ dl.state # "none"
              /\ calls = <<"getObjectEntityFile", "getMetadata",
                           "downloadObject">>
              /\ res.bodyKind = "original" => res.contentType = OctetStream

\* an object without content type has been served whole, unmodified, as
\* application/octet-stream
C25_Witness ==
  /\ NoContentType
  /\ dl.state = "done" /\ sent = SrcChunks
  /\ res.state = "ended" /\ res.statusCode = 200
  /\ res.bodyKind = "original" /\ res.contentType = OctetStream

\* C26: no error response (400, 404 or 500) carries the header
\* Cache-Control: public, max-age=31536000, also when a stream error is
\* answered with 500 after the headers were set; the header is only on
\* responses with status 200.
C26_ErrorsNotCacheable ==
  res.statusCode \in {400, 404, 500} =>
    res.cacheControl # "public, max-age=31536000"

\* the ids requests can name that the store does not hold
AbsentIds == RequestIds \ DOMAIN recipes

\* C27: in the in-memory store, updateRecipe and deleteRecipe on an id
\* that is not in the store leave the whole store as it is and report
\* absence (undefined, false); PATCH and DELETE then answer 404; and after
\* any sequence of operations GET /api/recipes/:id answers 404 exactly for
\* the ids that are not in the store.
C27_AbsentIdNoEffect ==
  /\ [](\A id \in AbsentIds :
          /\ DeleteRecipe(recipes, id) = [store |-> recipes, result |-> FALSE]
          /\ GetRecipe(recipes, id) = NoRecipe
          /\ \A body \in Bodies :
               UpdateRecipe(recipes, id, SafeParseUpdate(body).data)
                 = [store |-> recipes, result |-> NoRecipe])
  /\ [][/\ (/\ reply'.op \in {"PATCH", "DELETE"}
            /\ reply'.id \notin DOMAIN recipes
            /\ SafeParseUpdate(reply'.body).success)
           => (reply'.status = 404 /\ recipes' = recipes)
        /\ reply'.op = "GET" =>
             /\ recipes' = recipes
             /\ reply'.status = 404 <=> reply'.id \notin DOMAIN recipes
             /\ reply'.status = 200 <=> reply'.id \in DOMAIN recipes
       ]_vars

\* a PATCH with a valid body on an id that was deleted before has been
\* answered with 404 while other recipes are in the store
C27_Witness ==
  /\ reply.op = "PATCH" /\ reply.status = 404
  /\ reply.body = [name |-> S("stew")]
  /\ reply.id \in deleted
  /\ reply.id \notin DOMAIN recipes
  /\ Cardinality(DOMAIN recipes) >= 2

\* this step answers a request on an id a DELETE had removed before
LaterRequest ==
  reply'.op \in {"GET", "PATCH", "DELETE"} /\ reply'.id \in deleted

\* C28 as stated: after a successful DELETE of an id, every later GET,
\* PATCH or DELETE of that id is answered with 404.
C28_Always404 ==
  [][LaterRequest => reply'.status = 404]_vars

\* C28, amended: after a successful DELETE of an id the id never comes
\* back, whatever is created or updated in between: every later GET or
\* DELETE of it and every later PATCH with a valid body is answered with
\* 404, a PATCH with an invalid body with 400, and none of them changes
\* the store; the DELETE itself removes that recipe only.
C28_DeletedStaysDeleted ==
  /\ [](\A id \in deleted : id \notin DOMAIN recipes)
  /\ [][LaterRequest =>
          /\ recipes' = recipes
          /\ reply'.status =
               IF SafeParseUpdate(reply'.body).success THEN 404 ELSE 400
       ]_vars
  /\ [][(reply'.op = "DELETE" /\ reply'.status = 204) =>
          /\ reply'.id \in DOMAIN recipes
          /\ DOMAIN recipes' = DOMAIN recipes \ {reply'.id}
          /\ \A i \in DOMAIN recipes' : recipes'[i] = recipes[i]
       ]_vars

\* a recipe was deleted, another one created afterwards, and a GET of the
\* deleted id has been answered with 404
C28_Witness ==
  /\ reply.op = "GET" /\ reply.status = 404
  /\ reply.id \in deleted
  /\ \E i \in DOMAIN recipes : i > reply.id
  /\ nextId = Seeded + MaxCreated + 1

\* all recipes of the store before the step, except the one named, are in
\* the store after it as they were
OthersUnchanged(id) ==
  \A i \in DOMAIN recipes \ {id} :
    i \in DOMAIN recipes' /\ recipes'[i] = recipes[i]

\* C29: createRecipe adds exactly one recipe, under an id that no recipe
\* of the store has, leaves the existing recipes as they are, and getRecipe
\* of the new id returns the created recipe; updateRecipe of an existing
\* id keeps the id and every field the update does not name, sets the
\* fields it names, and changes no other recipe.
C29_CreateAndUpdate ==
  /\ [][(reply'.op = "POST" /\ reply'.status = 201) =>
          /\ reply'.id \notin DOMAIN recipes
          /\ DOMAIN recipes' = DOMAIN recipes \cup {reply'.id}
          /\ OthersUnchanged(reply'.id)
          /\ GetRecipe(recipes', reply'.id) = reply'.recipe
          /\ reply'.recipe.id = N(reply'.id)
          /\ reply'.recipe.name = reply'.body.name
       ]_vars
  /\ [][(reply'.op = "PATCH" /\ reply'.status = 200) =>
          LET id == reply'.id
              named == DOMAIN reply'.body \cap ShapeKeys
          IN  /\ id \in DOMAIN recipes
              /\ DOMAIN recipes' = DOMAIN recipes
              /\ OthersUnchanged(id)
              /\ recipes'[id] = reply'.recipe
              /\ recipes'[id].id = N(id)
              /\ DOMAIN recipes'[id] = DOMAIN recipes[id] \cup named
              /\ \A k \in DOMAIN recipes[id] \ named :
                   recipes'[id][k] = recipes[id][k]
              /\ \A k \in named : recipes'[id][k] = reply'.body[k]
       ]_vars

\* a created recipe was given four servings by a PATCH whose body also
\* named another id: it kept its name and id, next to another recipe
C29_Witness ==
  /\ reply.op = "PATCH" /\ reply.status = 200
  /\ reply.body = [servings |-> N(4), id |-> N(Seeded)]
  /\ reply.id > Seeded
  /\ reply.id \in DOMAIN recipes
  /\ recipes[reply.id].name = S("soup")
  /\ recipes[reply.id].servings = N(4)
  /\ recipes[reply.id].id = N(reply.id)
  /\ Cardinality(DOMAIN recipes) >= 2

\* the body of the request answered in this step fails its schema
InvalidBody ==
  \/ reply'.op = "POST" /\ ~SafeParseInsert(reply'.body).success
  \/ reply'.op = "PATCH" /\ ~SafeParseUpdate(reply'.body).success

\* C30: a POST or PATCH whose body fails schema validation is answered with
\* 400 and leaves the store as it is; PATCH validates the body before it
\* looks the id up, so an invalid body on an id that is not in the store
\* gives 400 and not 404.
C30_InvalidBodyRejected ==
  /\ [][InvalidBody =>
          /\ reply'.status = 400
          /\ recipes' = recipes /\ nextId' = nextId
       ]_vars
  /\ [][(reply'.op \in {"POST", "PATCH"} /\ reply'.status = 400)
          => InvalidBody]_vars

\* PATCH of an id that was never issued, with zero servings, was answered
\* with 400
C30_Witness ==
  /\ reply.op = "PATCH" /\ reply.status = 400
  /\ reply.body = [servings |-> N(0)]
  /\ reply.id >= nextId
  /\ reply.id \notin DOMAIN recipes
====
